---- MODULE Spec2Model ----
(***************************************************************************)
(* Model of xaucopysignal_v5_pending_orders.py: a bot that reads trading   *)
(* alerts from a Telegram channel, turns them into pending orders on       *)
(* MetaTrader 5 and keeps a list of the orders it placed.                   *)
(*                                                                         *)
(* Two threads share MT5Manager.pending_orders without a lock: the main    *)
(* loop (TradingBot._main_loop -> _process_message) and the daemon thread  *)
(* (TradingBot._cleanup_loop -> MT5Manager.cleanup_expired_orders).        *)
(*                                                                         *)
(* Text is modelled at the level of tokens: a message is a sequence of     *)
(* lower-cased words, symbols and numbers, and a regular expression is a   *)
(* set of token sequences searched for leftmost, as re.search does.        *)
(* Prices, volumes and tick data are integers in units of 0.01.            *)
(***************************************************************************)
EXTENDS Integers, Sequences, FiniteSets, TLC

(***************************************************************************)
(* Optional values: Python's None is the empty sequence, a value x is <<x>>*)
(***************************************************************************)
None == <<>>

Some(x) == <<x>>

IsNone(o) == o = <<>>

Val(o) == o[1]

\* A test for None alone, which 0.0 passes.
Present(o) == o # <<>>

\* Python truthiness of an Optional[float]: None and 0.0 are both false.
Truthy(o) == o # <<>> /\ o[1] # 0

(***************************************************************************)
(* Tokens                                                                  *)
(***************************************************************************)
W(s) == [w |-> s, v |-> 0]

N(n) == [w |-> "#", v |-> n]

NUM == {"#"}

COLON == {":"}

\* re.search(pattern, message): a pattern is a set of alternative token
\* sequences (one per way the optional parts and the alternations expand);
\* each element of a sequence is the set of words accepted at that place.
MatchesAt(variant, message, i) ==
    /\ i + Len(variant) - 1 <= Len(message)
    /\ \A j \in 1..Len(variant) : message[i + j - 1].w \in variant[j]

MatchPositions(pattern, message) ==
    {i \in 1..Len(message) : \E variant \in pattern : MatchesAt(variant, message, i)}

MinOf(S) == CHOOSE x \in S : \A y \in S : x <= y

\* The groups of the leftmost match: the numbers under the NUM places, in order.
\* None when the pattern matches nowhere.
Search(pattern, message) ==
    LET pos == MatchPositions(pattern, message) IN
    IF pos = {} THEN None
    ELSE LET i == MinOf(pos)
             variant == CHOOSE x \in pattern : MatchesAt(x, message, i)
             places == {j \in 1..Len(variant) : variant[j] = NUM}
             nth[k \in 1..Cardinality(places)] ==
                 CHOOSE j \in places : Cardinality({l \in places : l < j}) = k - 1
         IN Some([k \in 1..Cardinality(places) |-> message[i + nth[k] - 1].v])

(***************************************************************************)
(* MessageProcessor: the compiled patterns                                 *)
(***************************************************************************)
BUY_WORDS == {"buy", "long", "bullish", "compra", "largo"}

SELL_WORDS == {"sell", "short", "bearish", "venta", "corto"}

TRADE_TYPE_PATTERNS ==
    << [trade_type |-> "buy", pattern |-> {<<BUY_WORDS>>}],
       [trade_type |-> "sell", pattern |-> {<<SELL_WORDS>>}] >>

IMMEDIATE_PATTERNS ==
    << {<<{"buy", "sell"}, {"gold", "xauusd"}, {"now"}>>},
       {<<{"gold"}, {"buy", "sell"}, {"now"}>>},
       {<<{"scalping"}, {"buy", "sell"}>>},
       {<<{"let", "lets"}, {"scalping"}>>} >>

RANGE_PATTERNS ==
    << {<<{"@"}, NUM, {"-"}, NUM>>},
       {<<{"gold"}, {"@"}, NUM, {"-"}, NUM>>} >>

ENTRY_PATTERNS ==
    << {<<{"@"}, NUM>>},
       {<<{"entry", "enter"}, NUM>>, <<{"entry", "enter"}, COLON, NUM>>},
       {<<{"gold"}, {"@"}, NUM>>} >>

SL_PATTERNS ==
    << {<<{"sl", "stop"}, NUM>>, <<{"sl", "stop"}, COLON, NUM>>,
        <<{"stop"}, {"loss"}, NUM>>, <<{"stop"}, {"loss"}, COLON, NUM>>},
       {<<{"sl", "s.l", "s.l.", "sl."}, NUM>>,
        <<{"sl", "s.l", "s.l.", "sl."}, COLON, NUM>>} >>

TP_PATTERNS ==
    << {<<{"tp", "target"}, NUM>>, <<{"tp", "target"}, COLON, NUM>>,
        <<{"take"}, {"profit"}, NUM>>, <<{"take"}, {"profit"}, COLON, NUM>>},
       {<<{"tp1"}, NUM>>, <<{"tp1"}, COLON, NUM>>} >>

SL_UPDATE_PATTERNS ==
    << {<<{"move"}, {"sl"}, {"to", "at"}, NUM>>},
       {<<{"update"}, {"sl"}, {"to", "at"}, NUM>>},
       {<<{"sl"}, {"to", "at"}, NUM>>},
       {<<{"new"}, {"sl"}, {"to", "at", "is"}, NUM>>},
       {<<{"change"}, {"sl"}, {"to", "at"}, NUM>>} >>

\* "for pattern in patterns: match = pattern.search(message); if match: return ..."
\* The groups of the first pattern of the list that matches, None if none does.
FirstMatch(patterns, message) ==
    LET hits == {k \in 1..Len(patterns) : Search(patterns[k], message) # None} IN
    IF hits = {} THEN None ELSE Search(patterns[MinOf(hits)], message)

is_immediate_execution_message(message) ==
    \E k \in 1..Len(IMMEDIATE_PATTERNS) : Search(IMMEDIATE_PATTERNS[k], message) # None

\* Optional[float]: the number of the first SL-update pattern that matches.
is_sl_update_message(message) ==
    LET m == FirstMatch(SL_UPDATE_PATTERNS, message) IN
    IF m = None THEN None ELSE Some(Val(m)[1])

\* dict order: 'buy' is tried before 'sell'.
detect_trade_type(message) ==
    LET hits == {k \in 1..Len(TRADE_TYPE_PATTERNS) :
                    Search(TRADE_TYPE_PATTERNS[k].pattern, message) # None} IN
    IF hits = {} THEN None ELSE Some(TRADE_TYPE_PATTERNS[MinOf(hits)].trade_type)

Min2(a, b) == IF a <= b THEN a ELSE b

Max2(a, b) == IF a >= b THEN a ELSE b

\* _extract_entry_price trying the single-price patterns before the ranges.
extract_entry_price_single_first(message) ==
    LET r == FirstMatch(RANGE_PATTERNS, message)
        e == FirstMatch(ENTRY_PATTERNS, message) IN
    IF e # None
    THEN Some([type |-> "single", price |-> Val(e)[1], min_price |-> 0, max_price |-> 0])
    ELSE IF r # None
    THEN Some([type |-> "range", price |-> 0,
               min_price |-> Min2(Val(r)[1], Val(r)[2]),
               max_price |-> Max2(Val(r)[1], Val(r)[2])])
    ELSE None

\* Ranges before single prices.  The result always carries the same fields;
\* price is meaningful for 'single', min_price and max_price for 'range'.
extract_entry_price(message) ==
    LET r == FirstMatch(RANGE_PATTERNS, message)
        e == FirstMatch(ENTRY_PATTERNS, message) IN
    IF r # None
    THEN Some([type |-> "range", price |-> 0,
               min_price |-> Min2(Val(r)[1], Val(r)[2]),
               max_price |-> Max2(Val(r)[1], Val(r)[2])])
    ELSE IF e # None
    THEN Some([type |-> "single", price |-> Val(e)[1], min_price |-> 0, max_price |-> 0])
    ELSE None

extract_stop_loss(message) ==
    LET m == FirstMatch(SL_PATTERNS, message) IN
    IF m = None THEN None ELSE Some(Val(m)[1])

extract_take_profit(message) ==
    LET m == FirstMatch(TP_PATTERNS, message) IN
    IF m = None THEN None ELSE Some(Val(m)[1])

\* TradeParams: entry_price and entry_range are Optional; exactly the one the
\* entry data names is set.  raw_message is only ever logged and is left out.
TradeParams(trade_type, entry_price, entry_range, stop_loss, take_profit) ==
    [trade_type |-> trade_type, entry_price |-> entry_price,
     entry_range |-> entry_range, stop_loss |-> stop_loss,
     take_profit |-> take_profit]

\* Optional[TradeParams]
extract_parameters(message) ==
    LET trade_type == detect_trade_type(message)
        entry_data == extract_entry_price(message)
        stop_loss == extract_stop_loss(message)
        take_profit == extract_take_profit(message) IN
    IF message = <<>> THEN None
    ELSE IF is_immediate_execution_message(message) THEN None
    ELSE IF trade_type = None THEN None
    ELSE IF entry_data = None \/ ~Truthy(stop_loss) THEN None
    ELSE IF Val(entry_data).type = "range"
    THEN Some(TradeParams(Val(trade_type), None,
                          Some(<<Val(entry_data).min_price, Val(entry_data).max_price>>),
                          Val(stop_loss), take_profit))
    ELSE Some(TradeParams(Val(trade_type), Some(Val(entry_data).price), None,
                          Val(stop_loss), take_profit))

is_range_entry(trade_params) == trade_params.entry_range # None

(***************************************************************************)
(* TradeParams.get_pending_price                                           *)
(***************************************************************************)
\* entry_strategy.strip().lower() on the strategy strings of the model.
StripLower(s) ==
    CASE s = " MAX " -> "max"
      [] s = "Min" -> "min"
      [] s = "AUTO" -> "auto"
      [] OTHER -> s

\* A strategy that picks the low edge under auto and min and the high edge
\* under max whatever the side.
BasePriceSideBlind(trade_type, min_p, max_p, entry_strategy) ==
    IF entry_strategy # "auto" /\ StripLower(entry_strategy) = "max"
    THEN max_p ELSE min_p

\* The edge of the range a strategy picks before the offset is applied.
BasePrice(trade_type, min_p, max_p, entry_strategy) ==
    IF entry_strategy = "auto"
    THEN (IF trade_type = "buy" THEN min_p ELSE max_p)
    ELSE LET base == StripLower(entry_strategy) IN
         IF base = "min" THEN (IF trade_type = "buy" THEN min_p ELSE max_p)
         ELSE IF base = "max" THEN (IF trade_type = "buy" THEN max_p ELSE min_p)
         ELSE (IF trade_type = "buy" THEN min_p ELSE max_p)

\* get_pending_price adding central_zone to the price on either side.
get_pending_price_added(trade_params, entry_strategy, central_zone) ==
    IF is_range_entry(trade_params)
    THEN Some(BasePrice(trade_params.trade_type,
                        Val(trade_params.entry_range)[1],
                        Val(trade_params.entry_range)[2], entry_strategy)
              + central_zone)
    ELSE trade_params.entry_price

\* Optional[float]: for a single-price intent, entry_price as it is.
get_pending_price(trade_params, entry_strategy, central_zone) ==
    IF is_range_entry(trade_params)
    THEN LET min_p == Val(trade_params.entry_range)[1]
             max_p == Val(trade_params.entry_range)[2]
             price == BasePrice(trade_params.trade_type, min_p, max_p, entry_strategy)
         IN Some(IF central_zone # 0
                 THEN (IF trade_params.trade_type = "buy"
                       THEN price + central_zone ELSE price - central_zone)
                 ELSE price)
    ELSE trade_params.entry_price

(***************************************************************************)
(* The texts the channel can deliver.  Numbers are prices in units of 0.01.*)
(***************************************************************************)
Messages ==
    { \* chatter
      <<W("good"), W("morning")>>,
      \* "GOLD BUY @5-3 SL 2 TP 9"
      <<W("gold"), W("buy"), W("@"), N(5), W("-"), N(3), W("sl"), N(2), W("tp"), N(9)>>,
      \* "SELL GOLD @3-5 SL 7"
      <<W("sell"), W("gold"), W("@"), N(3), W("-"), N(5), W("sl"), N(7)>>,
      \* "BUY @4 SL 2", "SELL entry: 4 stop loss 7"
      <<W("buy"), W("@"), N(4), W("sl"), N(2)>>,
      <<W("sell"), W("entry"), W(":"), N(4), W("stop"), W("loss"), N(7)>>,
      \* an entry without a stop-loss, a stop-loss of 0
      <<W("buy"), W("@"), N(4)>>,
      <<W("buy"), W("@"), N(5), W("-"), N(3), W("sl"), N(0)>>,
      \* "buy gold now", alone, with levels, and with an SL update
      <<W("buy"), W("gold"), W("now")>>,
      <<W("buy"), W("gold"), W("now"), W("@"), N(5), W("-"), N(3), W("sl"), N(2)>>,
      <<W("lets"), W("scalping"), W("move"), W("sl"), W("to"), N(6)>>,
      \* "move sl to 6", "sl at 0"
      <<W("move"), W("sl"), W("to"), N(6)>>,
      <<W("sl"), W("at"), N(0)>>,
      \* an SL update together with a full signal
      <<W("new"), W("sl"), W("is"), N(6), W("buy"), W("@"), N(5), W("-"), N(3), W("sl"), N(2)>>,
      \* two SL updates, the first to try carrying 0, together with a full signal
      <<W("move"), W("sl"), W("to"), N(0), W("new"), W("sl"), W("is"), N(6),
        W("buy"), W("@"), N(5), W("-"), N(3), W("sl"), N(2)>> }

\* Some SL-update phrasing of the message, tried or not, carries a value > 0.
HasPositiveSlUpdate(message) ==
    \E k \in 1..Len(SL_UPDATE_PATTERNS) : \E i \in 1..Len(message) :
        \E variant \in SL_UPDATE_PATTERNS[k] :
            /\ MatchesAt(variant, message, i)
            /\ message[i + Len(variant) - 1].v > 0

\* The message names a side, an entry and a stop-loss above zero.
HasTradeTokens(message) ==
    /\ detect_trade_type(message) # None
    /\ extract_entry_price(message) # None
    /\ Truthy(extract_stop_loss(message))

\* What _process_message computes from the text of a message, and what the
\* statements about a message need to know of its text.
Reading(message) ==
    [new_sl |-> is_sl_update_message(message),
     trade_params |-> extract_parameters(message),
     immediate |-> is_immediate_execution_message(message),
     positive_update |-> HasPositiveSlUpdate(message),
     trade_tokens |-> HasTradeTokens(message)]

Readings == {Reading(message) : message \in Messages}

(***************************************************************************)
(* Bounds and the values the surroundings can answer with                  *)
(***************************************************************************)
\* The venue accepts at most this many orders in a run.
MaxTickets == 2

\* config_v2.json, section 'trading': entry_strategy, central_zone and
\* target_profit_usd (in cents).
Configs ==
    { [entry_strategy |-> "auto", central_zone |-> 0, target_profit |-> 2],
      [entry_strategy |-> " MAX ", central_zone |-> 1, target_profit |-> 2] }

\* mt5.symbol_info_tick: None, or the current bid and ask.
Ticks == {None, Some([bid |-> 3, ask |-> 4])}

\* mt5.symbol_info: None, or the tick value (currency units), the tick size
\* (0.01) and the minimum volume (0.01 lot) of the symbol.
SymbolInfos ==
    { None,
      Some([trade_tick_value |-> 1, trade_tick_size |-> 1, volume_min |-> 1]),
      Some([trade_tick_value |-> 0, trade_tick_size |-> 0, volume_min |-> 1]),
      Some([trade_tick_value |-> 1, trade_tick_size |-> 1, volume_min |-> 0]) }

\* mt5.order_send: None, a result whose retcode is not TRADE_RETCODE_DONE, or
\* a result with TRADE_RETCODE_DONE.
SendResults == {"none", "rejected", "done"}

(***************************************************************************)
(* State                                                                   *)
(***************************************************************************)
VARIABLES
    trading_config,  \* ConfigManager.trading
    running,         \* TradingBot.running
    pending_orders,  \* MT5Manager.pending_orders: the tickets of the listed PendingOrder objects
    objects,         \* the PendingOrder objects ever created, by ticket
    venue,           \* MetaTrader 5: every order it accepted, by ticket
    mainPc,          \* where the main thread is
    cur,             \* the Reading of the message _process_message is handling
    call,            \* arguments, locals and outcome of the manager call in progress
    cleanPc,         \* where the cleanup thread is
    active_orders,   \* cleanup_expired_orders: the local list
    cursor,          \* cleanup_expired_orders: index of the list iterator
    order_info,      \* cleanup_expired_orders: whether orders_get found the order
    sweep,           \* what the sweep in progress started from and was told
    channel,         \* the Telegram channel: the content of every message, by id
    last_message_id, \* TelegramManager.last_message_id
    new_messages,    \* the ids get_new_messages returned that are still to be processed
    processed,       \* the ids handed to _process_message so far, in order
    present,         \* how many messages the channel held when TelegramManager.connect ran
    probe            \* a pricing function applied on its own: arguments and result

mainVars == <<mainPc, cur, call>>

cleanVars == <<cleanPc, active_orders, cursor, order_info, sweep>>

ingestVars == <<channel, last_message_id, new_messages, processed, present>>

vars == <<trading_config, running, pending_orders, objects, venue,
          mainPc, cur, call, cleanPc, active_orders, cursor, order_info, sweep,
          channel, last_message_id, new_messages, processed, present, probe>>

NoReading == [new_sl |-> None, trade_params |-> None, immediate |-> FALSE,
              positive_update |-> FALSE, trade_tokens |-> FALSE]

NoCall ==
    [fn |-> "none", outcome |-> "", new_sl |-> 0, trade_params |-> None,
     pending_price |-> None, queries |-> <<>>, positions |-> None, orders |-> None,
     requests |-> <<>>]

NoSweep == [start |-> {}, seen |-> <<>>, failed |-> FALSE]

NoProbe == [fn |-> "none"]

Range(seq) == {seq[i] : i \in 1..Len(seq)}

\* The elements of a set of tickets in ascending order.
RECURSIVE Ascending(_)
Ascending(S) ==
    IF S = {} THEN <<>> ELSE <<MinOf(S)>> \o Ascending(S \ {MinOf(S)})

WorkingOrders == {t \in DOMAIN venue : venue[t].state = "working"}

OpenPositions == {t \in DOMAIN venue : venue[t].state = "position"}

\* Everything but the probe, as the constructors leave it.
InitBot ==
    /\ trading_config \in Configs
    /\ running = FALSE
    /\ pending_orders = <<>>
    /\ objects = <<>>
    /\ venue = <<>>
    /\ mainPc = "idle"
    /\ cur = NoReading
    /\ call = NoCall
    /\ cleanPc = "sleep"
    /\ active_orders = <<>>
    /\ cursor = 1
    /\ order_info = FALSE
    /\ sweep = NoSweep
    /\ channel = <<>>
    /\ last_message_id = 0
    /\ new_messages = <<>>
    /\ processed = <<>>
    /\ present = 0

Init == InitBot /\ probe = NoProbe

\* TradingBot.start with both connections made: running = True, the cleanup
\* thread is started and the main loop entered.  TelegramManager.connect has
\* run _initialize_message_id: last_message_id is the id of the newest
\* message of the channel, or 0 when there is none or the request failed.
Start ==
    /\ ~running
    /\ mainPc = "idle"
    /\ running' = TRUE
    /\ last_message_id' \in {0, Len(channel)}
    /\ present' = Len(channel)
    /\ UNCHANGED <<trading_config, pending_orders, objects, venue>>
    /\ UNCHANGED <<channel, new_messages, processed, probe>>
    /\ UNCHANGED mainVars
    /\ UNCHANGED cleanVars

(***************************************************************************)
(* Main thread: TradingBot._process_message                                *)
(***************************************************************************)
\* _process_message testing "new_sl is not None": any SL update is acted on.
RouteOnAnyUpdate(reading) ==
    IF reading.new_sl # None THEN "update_pending_order_sl"
    ELSE IF reading.trade_params = None THEN "ignored"
    ELSE IF is_range_entry(Val(reading.trade_params)) THEN "place_pending_order"
    ELSE "raised"

\* Which way _process_message goes on a message: the SL update is looked for
\* first; then the trade parameters; a range intent is priced and placed; a
\* single-price intent reaches place_pending_order(trade_params, pending_price)
\* with pending_price never assigned, which raises UnboundLocalError into the
\* handler's except clause.
Route(reading) ==
    IF Truthy(reading.new_sl) THEN "update_pending_order_sl"
    ELSE IF reading.trade_params = None THEN "ignored"
    ELSE IF is_range_entry(Val(reading.trade_params)) THEN "place_pending_order"
    ELSE "raised"

\* The main loop hands the next new message to _process_message, which runs
\* up to its call into the MT5 manager, or to its end.
ProcessMessage(reading) ==
    /\ running
    /\ mainPc = "idle"
    /\ cur' = reading
    /\ CASE Route(reading) = "update_pending_order_sl" ->
              /\ mainPc' = "sl_positions"
              /\ call' = [NoCall EXCEPT !.fn = "update_pending_order_sl",
                                        !.new_sl = Val(reading.new_sl)]
         [] Route(reading) = "place_pending_order" ->
              /\ mainPc' = "place"
              /\ call' = [NoCall EXCEPT
                            !.fn = "place_pending_order",
                            !.trade_params = reading.trade_params,
                            !.pending_price =
                                get_pending_price(Val(reading.trade_params),
                                                  trading_config.entry_strategy,
                                                  trading_config.central_zone)]
         [] OTHER ->
              /\ mainPc' = "done"
              /\ call' = [NoCall EXCEPT !.outcome = Route(reading)]
    /\ UNCHANGED <<trading_config, running, pending_orders, objects, venue>>
    /\ UNCHANGED probe
    /\ UNCHANGED cleanVars

Receive ==
    /\ \E reading \in Readings : ProcessMessage(reading)
    /\ UNCHANGED ingestVars

\* The handlers with _process_message left without its "except Exception".
CaughtButInProcessMessage(site) == site # "_process_message"

\* get_new_messages, _process_message and cleanup_expired_orders each run in
\* a try with an "except Exception" that logs and returns: what is raised
\* inside them does not reach the loop that called them.
Caught(site) == TRUE

\* _process_message returns; the main loop sleeps and polls again.  An
\* exception that left _process_message would end _main_loop, whose finally
\* clause calls stop(): running = False.
Return ==
    /\ mainPc = "done"
    /\ IF call.outcome = "raised" /\ ~Caught("_process_message")
       THEN mainPc' = "stopped" /\ running' = FALSE
       ELSE mainPc' = "idle" /\ running' = running
    /\ cur' = NoReading
    /\ call' = NoCall
    /\ UNCHANGED <<trading_config, pending_orders, objects, venue>>
    /\ UNCHANGED <<ingestVars, probe>>
    /\ UNCHANGED cleanVars

(***************************************************************************)
(* TelegramManager.get_new_messages and the for loop of _main_loop         *)
(***************************************************************************)
\* The channel holds at most this many messages.
MaxMessages == 6

\* get_messages(entity=..., limit=5)
FetchLimit == 5

\* The content of a message: none (a message without text), or a text.
ChannelTexts ==
    { <<>>,
      <<W("gold"), W("buy"), W("@"), N(5), W("-"), N(3), W("sl"), N(2), W("tp"), N(9)>> }

\* A message appears on the channel; its id is the next one.
Arrive ==
    /\ Len(channel) < MaxMessages
    /\ \E content \in ChannelTexts : channel' = Append(channel, content)
    /\ UNCHANGED <<last_message_id, new_messages, processed, present, probe>>
    /\ UNCHANGED <<trading_config, running, pending_orders, objects, venue>>
    /\ UNCHANGED <<mainVars, cleanVars>>

\* What get_messages returns: the ids of the newest messages, newest first.
Fetched(chan) ==
    [k \in 1..(IF Len(chan) < FetchLimit THEN Len(chan) ELSE FetchLimit) |->
        Len(chan) - k + 1]

\* get_new_messages going through the messages in the order they came in.
AsFetched(messages) == messages

\* reversed(messages or [])
Reversed(messages) ==
    [k \in 1..Len(messages) |-> messages[Len(messages) - k + 1]]

\* A message taken for new whatever its id.
IsNewWhateverId(mid, last, content) == content # <<>>

\* "if mid and mid > self.last_message_id and content"
IsNew(mid, last, content) == mid > last /\ content # <<>>

\* get_new_messages leaving last_message_id as it was.
AdvanceNever(last, mid) == last

\* self.last_message_id = mid
Advance(last, mid) == mid

\* The for loop of get_new_messages over the messages in the given order,
\* from the given last_message_id: the new messages and last_message_id.
RECURSIVE Scan(_, _, _, _)
Scan(chan, messages, last, new) ==
    IF messages = <<>>
    THEN [new_messages |-> new, last_message_id |-> last]
    ELSE LET mid == Head(messages) IN
         IF IsNew(mid, last, chan[mid])
         THEN Scan(chan, Tail(messages), Advance(last, mid), Append(new, mid))
         ELSE Scan(chan, Tail(messages), last, new)

\* _main_loop calls get_new_messages once the messages of the last call are
\* all processed.  The request fails (the exception is logged and [] is
\* returned), or the newest messages are gone through oldest first.
Poll ==
    /\ running
    /\ mainPc = "idle"
    /\ new_messages = <<>>
    /\ \/ /\ IF Caught("get_new_messages")
             THEN /\ mainPc' = "idle"
                  /\ running' = running
                  /\ call' = [NoCall EXCEPT !.fn = "get_new_messages",
                                            !.outcome = "failed"]
             ELSE /\ mainPc' = "stopped"
                  /\ running' = FALSE
                  /\ call' = NoCall
          /\ UNCHANGED <<new_messages, last_message_id>>
       \/ LET scanned == Scan(channel, Reversed(Fetched(channel)),
                              last_message_id, <<>>) IN
          /\ new_messages' = scanned.new_messages
          /\ last_message_id' = scanned.last_message_id
          /\ call' = [NoCall EXCEPT !.fn = "get_new_messages",
                                    !.outcome = "fetched"]
          /\ UNCHANGED <<mainPc, running>>
    /\ UNCHANGED <<channel, processed, present, probe, cur>>
    /\ UNCHANGED <<trading_config, pending_orders, objects, venue>>
    /\ UNCHANGED cleanVars

\* "for message in new_messages: self._process_message(message)": the next
\* of the new messages is handed to _process_message.
ProcessNext ==
    /\ new_messages # <<>>
    /\ ProcessMessage(Reading(channel[Head(new_messages)]))
    /\ new_messages' = Tail(new_messages)
    /\ processed' = Append(processed, Head(new_messages))
    /\ UNCHANGED <<channel, last_message_id, present>>

(***************************************************************************)
(* MT5Manager.place_pending_order                                          *)
(***************************************************************************)
\* symbol_info.volume_min if symbol_info else 0.01
get_minimum_volume(symbol_info) ==
    IF symbol_info # None THEN Val(symbol_info).volume_min ELSE 1

\* calculate_tp_for_profit falling back to a tick value of 1.0 and a tick
\* size of 0.01 also when mt5.symbol_info answers None, as get_minimum_volume
\* falls back to 0.01.
calculate_tp_with_defaults(entry_price, trade_type, volume, symbol_info, target_profit) ==
    IF volume = 0 THEN None
    ELSE LET tick_value == IF symbol_info # None /\ Val(symbol_info).trade_tick_value # 0
                           THEN Val(symbol_info).trade_tick_value ELSE 1
             tick_size == IF symbol_info # None /\ Val(symbol_info).trade_tick_size # 0
                          THEN Val(symbol_info).trade_tick_size ELSE 1
             points_needed == (target_profit * tick_size) \div (tick_value * volume)
         IN Some(IF trade_type = "buy" THEN entry_price + points_needed
                 ELSE entry_price - points_needed)

\* Optional[float].  tick_value falls back to 1.0 and tick_size to 0.01 when
\* the venue gives 0; a zero volume raises ZeroDivisionError, caught: None.
\* With the target in cents, the tick size in 0.01 and the volume in 0.01 lot
\* the distance target * tick_size / (tick_value * volume) is in 0.01 too.
calculate_tp_for_profit(entry_price, trade_type, volume, symbol_info, target_profit) ==
    IF symbol_info = None THEN None
    ELSE LET tick_value == IF Val(symbol_info).trade_tick_value # 0
                           THEN Val(symbol_info).trade_tick_value ELSE 1
             tick_size == IF Val(symbol_info).trade_tick_size # 0
                          THEN Val(symbol_info).trade_tick_size ELSE 1
         IN IF tick_value * volume = 0 THEN None
            ELSE LET points_needed == (target_profit * tick_size) \div (tick_value * volume)
                 IN Some(IF trade_type = "buy" THEN entry_price + points_needed
                         ELSE entry_price - points_needed)

\* The order type with the bid as the current price on both sides.
OrderTypeByBid(trade_type, pending_price, bid, ask) ==
    IF trade_type = "buy"
    THEN (IF pending_price < bid THEN "buy_limit" ELSE "buy_stop")
    ELSE (IF pending_price > bid THEN "sell_limit" ELSE "sell_stop")

\* "Determinar tipo de orden pendiente": current_price is the ask for a buy
\* and the bid for a sell.
OrderType(trade_type, pending_price, bid, ask) ==
    LET current_price == IF trade_type = "buy" THEN ask ELSE bid IN
    IF trade_type = "buy"
    THEN (IF pending_price < current_price THEN "buy_limit" ELSE "buy_stop")
    ELSE (IF pending_price > current_price THEN "sell_limit" ELSE "sell_stop")

\* The take-profit of the request taken from the message when it gives one.
RequestTpFromHint(trade_params, tp) ==
    IF Truthy(trade_params.take_profit) THEN Val(trade_params.take_profit) ELSE tp

\* "tp": tp and take_profit=tp: the request and the PendingOrder carry the
\* computed take-profit; trade_params.take_profit is not read.
RequestTp(trade_params, tp) == tp

\* What the call comes to, given what the venue answers: the outcome, the
\* request sent (None when the call fails before mt5.order_send), the ticket
\* of the result (result.order: the new ticket with TRADE_RETCODE_DONE, else
\* 0) and the PendingOrder built from it.
PlaceOutcome(trade_params, given_price, config, tick, info_volume, info_tp, result, new_ticket) ==
    LET volume == get_minimum_volume(info_volume)
        pending_price ==
            IF given_price = None
            THEN Val(get_pending_price(trade_params, config.entry_strategy,
                                       config.central_zone))
            ELSE Val(given_price)
        tp == calculate_tp_for_profit(pending_price, trade_params.trade_type,
                                      volume, info_tp, config.target_profit)
        request == [action |-> "pending", volume |-> volume,
                    type |-> OrderType(trade_params.trade_type, pending_price,
                                       Val(tick).bid, Val(tick).ask),
                    price |-> pending_price, sl |-> trade_params.stop_loss,
                    tp |-> RequestTp(trade_params, Val(tp))]
        ticket == IF result = "done" THEN new_ticket ELSE 0
        pending_order == [ticket |-> ticket, trade_type |-> trade_params.trade_type,
                          entry_price |-> pending_price,
                          stop_loss |-> trade_params.stop_loss,
                          take_profit |-> RequestTp(trade_params, Val(tp)),
                          volume |-> volume,
                          is_activated |-> FALSE]
    IN IF tick = None
       THEN [outcome |-> "no_price", request |-> None, pending_order |-> None]
       ELSE IF ~Truthy(tp)
       THEN [outcome |-> "no_tp", request |-> None, pending_order |-> None]
       ELSE IF result = "none"
       THEN [outcome |-> "no_result", request |-> Some(request), pending_order |-> None]
       ELSE [outcome |-> IF result = "done" THEN "placed" ELSE "rejected",
             request |-> Some(request), pending_order |-> Some(pending_order)]

\* place_pending_order without its check of result.retcode: the order is
\* listed whenever mt5.order_send answered.
RegisteredOnAnyResult(registry, placed) ==
    IF placed.pending_order # None
    THEN Append(registry, Val(placed.pending_order).ticket)
    ELSE registry

\* "if result.retcode != mt5.TRADE_RETCODE_DONE: return False", else
\* self.pending_orders.append(pending_order): the list after the call.
Registered(registry, placed) ==
    IF placed.outcome = "placed"
    THEN Append(registry, Val(placed.pending_order).ticket)
    ELSE registry

\* Every way the call can come out, whatever the venue answers.
PlaceOutcomes(new_ticket) ==
    {PlaceOutcome(Val(call.trade_params), call.pending_price, trading_config,
                  tick, info_volume, info_tp, result, new_ticket) :
        tick \in Ticks, info_volume \in SymbolInfos, info_tp \in SymbolInfos,
        result \in SendResults}

\* The venue lists the order it accepted under the ticket it returned.
PlaceOrder ==
    /\ mainPc = "place"
    /\ \E placed \in PlaceOutcomes(Len(venue) + 1) :
         /\ placed.outcome = "placed" => Len(venue) < MaxTickets
         /\ call' = [call EXCEPT !.outcome = placed.outcome,
                                 !.requests = placed.request]
         /\ pending_orders' = Registered(pending_orders, placed)
         /\ objects' = IF pending_orders' # pending_orders
                       THEN Append(objects, Val(placed.pending_order))
                       ELSE objects
         /\ venue' = IF placed.outcome = "placed"
                     THEN Append(venue, [state |-> "working",
                                         type |-> Val(placed.request).type,
                                         price_open |-> Val(placed.request).price,
                                         tp |-> Val(placed.request).tp])
                     ELSE venue
    /\ mainPc' = "done"
    /\ UNCHANGED <<trading_config, running, cur>>
    /\ UNCHANGED <<ingestVars, probe>>
    /\ UNCHANGED cleanVars

(***************************************************************************)
(* MT5Manager.update_pending_order_sl                                      *)
(***************************************************************************)
\* "if positions:" / "if pending_orders:": None and the empty tuple are both
\* skipped; else every ticket of the answer is visited.
Targets(answer) == IF answer = None THEN {} ELSE Val(answer)

\* Phase 2 as the comment above it words it ("si no hay posiciones"): the
\* pending orders are visited only when no position was reported.
PendingTargetsIfNoPositions(positions, orders) ==
    IF Targets(positions) # {} THEN {} ELSE Targets(orders)

\* The tickets phase 2 visits, given the answers of both queries.
PendingTargets(positions, orders) == Targets(orders)

\* Requests that name the new stop-loss alone: no tp, and no price for an order.
ModifyRequestsSlAlone(action, tickets, new_sl, results) ==
    [k \in 1..Len(tickets) |->
        [action |-> action, ticket |-> tickets[k], sl |-> new_sl,
         tp |-> 0, price |-> 0, result |-> results[tickets[k]]]]

\* One request per visited ticket, in the order of the answer, each with the
\* venue's answer to it.  A position keeps its tp; a pending order keeps its
\* tp and is sent its own price_open again.
ModifyRequests(action, tickets, new_sl, results) ==
    [k \in 1..Len(tickets) |->
        [action |-> action, ticket |-> tickets[k], sl |-> new_sl,
         tp |-> venue[tickets[k]].tp,
         price |-> IF action = "modify" THEN venue[tickets[k]].price_open ELSE 0,
         result |-> results[tickets[k]]]]

\* updated_count: the requests answered with TRADE_RETCODE_DONE.
UpdatedCount(requests) ==
    Cardinality({k \in 1..Len(requests) : requests[k].result = "done"})

\* update_pending_order_sl returning True only when no request failed.
SlUpdatedAll(requests) ==
    Len(requests) > 0 /\ UpdatedCount(requests) = Len(requests)

\* The value update_pending_order_sl returns.
SlUpdated(requests) == UpdatedCount(requests) > 0

\* Phase 1: mt5.positions_get(symbol=...) and a TRADE_ACTION_SLTP per position.
SlPositions ==
    /\ mainPc = "sl_positions"
    /\ \E positions \in {None, Some(OpenPositions)} :
       \E results \in [Targets(positions) -> SendResults] :
          call' = [call EXCEPT
                     !.queries = Append(@, "positions_get"),
                     !.positions = positions,
                     !.requests = ModifyRequests("sltp", Ascending(Targets(positions)),
                                                 call.new_sl, results)]
    /\ mainPc' = "sl_orders"
    /\ UNCHANGED <<trading_config, running, pending_orders, objects, venue, cur>>
    /\ UNCHANGED <<ingestVars, probe>>
    /\ UNCHANGED cleanVars

\* Phase 2 writing the new stop-loss into the PendingOrder of every order
\* whose modification the venue accepted.
SlOrdersStoringSl ==
    /\ mainPc = "sl_orders"
    /\ \E orders \in {None, Some(WorkingOrders)} :
       \E results \in [PendingTargets(call.positions, orders) -> SendResults] :
          LET requests ==
                 call.requests \o
                 ModifyRequests("modify",
                                Ascending(PendingTargets(call.positions, orders)),
                                call.new_sl, results)
          IN /\ call' = [call EXCEPT
                           !.queries = Append(@, "orders_get"),
                           !.orders = orders,
                           !.requests = requests,
                           !.outcome = IF SlUpdated(requests) THEN "updated"
                                       ELSE "not_updated"]
             /\ objects' =
                   [t \in DOMAIN objects |->
                       IF t \in PendingTargets(call.positions, orders)
                          /\ results[t] = "done"
                       THEN [objects[t] EXCEPT !.stop_loss = call.new_sl]
                       ELSE objects[t]]
    /\ mainPc' = "done"
    /\ UNCHANGED <<trading_config, running, pending_orders, venue, cur>>
    /\ UNCHANGED <<ingestVars, probe>>
    /\ UNCHANGED cleanVars

\* Phase 2: mt5.orders_get(symbol=...) and a TRADE_ACTION_MODIFY per pending
\* order; then the return value.
SlOrders ==
    /\ mainPc = "sl_orders"
    /\ \E orders \in {None, Some(WorkingOrders)} :
       \E results \in [PendingTargets(call.positions, orders) -> SendResults] :
          LET requests ==
                 call.requests \o
                 ModifyRequests("modify",
                                Ascending(PendingTargets(call.positions, orders)),
                                call.new_sl, results)
          IN call' = [call EXCEPT
                        !.queries = Append(@, "orders_get"),
                        !.orders = orders,
                        !.requests = requests,
                        !.outcome = IF SlUpdated(requests) THEN "updated"
                                    ELSE "not_updated"]
    /\ mainPc' = "done"
    /\ UNCHANGED <<trading_config, running, pending_orders, objects, venue, cur>>
    /\ UNCHANGED <<ingestVars, probe>>
    /\ UNCHANGED cleanVars

(***************************************************************************)
(* Cleanup thread: TradingBot._cleanup_loop and                            *)
(* MT5Manager.cleanup_expired_orders                                       *)
(***************************************************************************)
\* Truthiness of an answer: None and the empty tuple are both false.
Found(answer) == answer = "found"

\* cleanup_expired_orders keeping only what is still a working order.
KeptWhileWorking(order_found, position_found) == order_found

\* "if order_info or position_info": the order stays listed.
Kept(order_found, position_found) == order_found \/ position_found

\* cleanup_expired_orders marking every order it keeps as activated.
ActivatedWhenKept(was_activated, position_found) == TRUE

\* "if position_info: pending_order.is_activated = True"
Activated(was_activated, position_found) == was_activated \/ position_found

\* The list cleanup_expired_orders stores back.
WrittenBack(listed, kept) == kept

\* What orders_get(ticket=t) / positions_get(ticket=t) can answer now: None
\* on an error ("error"), else the tuple of what was found, empty or not.
OrderAnswers(t) ==
    {"error", IF venue[t].state = "working" THEN "found" ELSE "empty"}

PositionAnswers(t) ==
    {"error", IF venue[t].state = "position" THEN "found" ELSE "empty"}

\* time.sleep(30) is over and running is still True: active_orders = [] and
\* the for loop takes an iterator on self.pending_orders.
CleanupBegin ==
    /\ running
    /\ cleanPc = "sleep"
    /\ cleanPc' = "next"
    /\ active_orders' = <<>>
    /\ cursor' = 1
    /\ order_info' = FALSE
    /\ sweep' = [start |-> Range(pending_orders), seen |-> <<>>, failed |-> FALSE]
    /\ UNCHANGED <<trading_config, running, pending_orders, objects, venue>>
    /\ UNCHANGED <<ingestVars, probe>>
    /\ UNCHANGED mainVars

\* The iterator yields the next element of the list as the list is now, and
\* mt5.orders_get(ticket=...) is asked.
CleanupOrdersGet ==
    /\ cleanPc = "next"
    /\ cursor <= Len(pending_orders)
    /\ \E answer \in OrderAnswers(pending_orders[cursor]) :
         /\ order_info' = Found(answer)
         /\ sweep' = [sweep EXCEPT !.failed = @ \/ answer = "error"]
    /\ cleanPc' = "positions_get"
    /\ UNCHANGED <<active_orders, cursor>>
    /\ UNCHANGED <<trading_config, running, pending_orders, objects, venue>>
    /\ UNCHANGED <<ingestVars, probe>>
    /\ UNCHANGED mainVars

\* mt5.positions_get(ticket=...) is asked and the body of the loop runs.
CleanupPositionsGet ==
    /\ cleanPc = "positions_get"
    /\ \E answer \in PositionAnswers(pending_orders[cursor]) :
         LET t == pending_orders[cursor]
             position_info == Found(answer) IN
         /\ objects' = [objects EXCEPT ![t].is_activated =
                            IF Kept(order_info, position_info)
                            THEN Activated(@, position_info) ELSE @]
         /\ active_orders' = IF Kept(order_info, position_info)
                             THEN Append(active_orders, t) ELSE active_orders
         /\ sweep' = [sweep EXCEPT
                        !.seen = Append(@, [ticket |-> t, order |-> order_info,
                                            position |-> position_info]),
                        !.failed = @ \/ answer = "error"]
    /\ cursor' = cursor + 1
    /\ cleanPc' = "next"
    /\ order_info' = FALSE
    /\ UNCHANGED <<trading_config, running, pending_orders, venue>>
    /\ UNCHANGED <<ingestVars, probe>>
    /\ UNCHANGED mainVars

\* The iterator is exhausted: the loop is left.
CleanupExhausted ==
    /\ cleanPc = "next"
    /\ cursor > Len(pending_orders)
    /\ cleanPc' = "write"
    /\ UNCHANGED <<active_orders, cursor, order_info, sweep>>
    /\ UNCHANGED <<trading_config, running, pending_orders, objects, venue>>
    /\ UNCHANGED <<ingestVars, probe>>
    /\ UNCHANGED mainVars

\* self.pending_orders = active_orders
CleanupWrite ==
    /\ cleanPc = "write"
    /\ pending_orders' = WrittenBack(pending_orders, active_orders)
    /\ cleanPc' = "swept"
    /\ UNCHANGED <<active_orders, cursor, order_info, sweep>>
    /\ UNCHANGED <<trading_config, running, objects, venue>>
    /\ UNCHANGED <<ingestVars, probe>>
    /\ UNCHANGED mainVars

\* cleanup_expired_orders returns and the thread goes back to sleep.
CleanupSleep ==
    /\ cleanPc = "swept"
    /\ cleanPc' = "sleep"
    /\ active_orders' = <<>>
    /\ cursor' = 1
    /\ sweep' = NoSweep
    /\ UNCHANGED order_info
    /\ UNCHANGED <<trading_config, running, pending_orders, objects, venue>>
    /\ UNCHANGED <<ingestVars, probe>>
    /\ UNCHANGED mainVars

\* A call to the venue raises inside the sweep: the "except Exception" of
\* cleanup_expired_orders logs it and the function returns with the list as
\* it was.  Were it not caught there nor in _cleanup_loop the thread would end.
CleanupRaise ==
    /\ cleanPc \in {"next", "positions_get"}
    /\ cleanPc = "next" => cursor <= Len(pending_orders)
    /\ cleanPc' = IF Caught("cleanup_expired_orders") THEN "swept" ELSE "dead"
    /\ sweep' = [sweep EXCEPT !.failed = TRUE]
    /\ order_info' = FALSE
    /\ UNCHANGED <<active_orders, cursor>>
    /\ UNCHANGED <<trading_config, running, pending_orders, objects, venue>>
    /\ UNCHANGED <<ingestVars, probe>>
    /\ UNCHANGED mainVars

\* "while self.running" is found False once time.sleep is over: the thread ends.
CleanupEnd ==
    /\ ~running
    /\ cleanPc = "sleep"
    /\ cleanPc' = "ended"
    /\ UNCHANGED <<active_orders, cursor, order_info, sweep>>
    /\ UNCHANGED <<trading_config, running, pending_orders, objects, venue>>
    /\ UNCHANGED <<ingestVars, probe>>
    /\ UNCHANGED mainVars

(***************************************************************************)
(* TradingBot.stop                                                         *)
(***************************************************************************)
\* Ctrl+C while the main loop sleeps between two polls: KeyboardInterrupt
\* leaves the loop and its finally clause calls stop(), which sets
\* running = False and goes into cleanup_thread.join(timeout=5).
Interrupt ==
    /\ running
    /\ mainPc = "idle"
    /\ running' = FALSE
    /\ mainPc' = "join"
    /\ UNCHANGED <<cur, call>>
    /\ UNCHANGED <<trading_config, pending_orders, objects, venue>>
    /\ UNCHANGED <<ingestVars, probe>>
    /\ UNCHANGED cleanVars

\* join returns, because the thread ended or because the 5 seconds are over
\* (the thread is asleep for 30, or in a sweep that takes longer), and stop()
\* goes on to mt5_manager.disconnect() and telegram_manager.disconnect().
Disconnect ==
    /\ mainPc = "join"
    /\ mainPc' = "stopped"
    /\ UNCHANGED <<cur, call>>
    /\ UNCHANGED <<trading_config, running, pending_orders, objects, venue>>
    /\ UNCHANGED <<ingestVars, probe>>
    /\ UNCHANGED cleanVars

(***************************************************************************)
(* The venue: a working order is filled into a position of the same        *)
(* ticket, or is cancelled or expires; a position is closed.  The volume   *)
(* is the minimum volume, so an order is filled whole.                     *)
(***************************************************************************)
VenueFill ==
    /\ \E t \in WorkingOrders : venue' = [venue EXCEPT ![t].state = "position"]
    /\ UNCHANGED <<trading_config, running, pending_orders, objects>>
    /\ UNCHANGED <<ingestVars, probe>>
    /\ UNCHANGED mainVars
    /\ UNCHANGED cleanVars

VenueCancel ==
    /\ \E t \in WorkingOrders : venue' = [venue EXCEPT ![t].state = "gone"]
    /\ UNCHANGED <<trading_config, running, pending_orders, objects>>
    /\ UNCHANGED <<ingestVars, probe>>
    /\ UNCHANGED mainVars
    /\ UNCHANGED cleanVars

VenueClose ==
    /\ \E t \in OpenPositions : venue' = [venue EXCEPT ![t].state = "gone"]
    /\ UNCHANGED <<trading_config, running, pending_orders, objects>>
    /\ UNCHANGED <<ingestVars, probe>>
    /\ UNCHANGED mainVars
    /\ UNCHANGED cleanVars

Next ==
    \/ Start
    \/ Receive
    \/ PlaceOrder
    \/ SlPositions
    \/ SlOrders
    \/ Return
    \/ CleanupBegin
    \/ CleanupOrdersGet
    \/ CleanupPositionsGet
    \/ CleanupExhausted
    \/ CleanupWrite
    \/ CleanupSleep
    \/ CleanupRaise
    \/ VenueFill
    \/ VenueCancel
    \/ VenueClose
    \/ Arrive
    \/ Poll
    \/ ProcessNext
    \/ CleanupEnd
    \/ Interrupt
    \/ Disconnect

Spec == Init /\ [][Next]_vars

\* The main thread and the venue alone.  The cleanup thread reads the venue
\* and writes the list and its objects, which _process_message through
\* update_pending_order_sl neither reads nor writes.
NextMain ==
    \/ Start
    \/ Receive
    \/ PlaceOrder
    \/ SlPositions
    \/ SlOrders
    \/ Return
    \/ VenueFill
    \/ VenueCancel
    \/ VenueClose

SpecMain == Init /\ [][NextMain]_vars

\* The list and both threads that write it, and the venue.  A main thread
\* that entered update_pending_order_sl, which neither reads nor writes the
\* list, stays in that call.
NextRegistry ==
    \/ Start
    \/ Receive
    \/ PlaceOrder
    \/ Return
    \/ CleanupBegin
    \/ CleanupOrdersGet
    \/ CleanupPositionsGet
    \/ CleanupExhausted
    \/ CleanupWrite
    \/ CleanupSleep
    \/ VenueFill
    \/ VenueCancel
    \/ VenueClose

SpecRegistry == Init /\ [][NextRegistry]_vars

\* The channel and the main loop that polls it, with the orders it places.
NextIngest ==
    \/ Start
    \/ Arrive
    \/ Poll
    \/ ProcessNext
    \/ PlaceOrder
    \/ Return

SpecIngest == Init /\ [][NextIngest]_vars

\* Both loops with everything that can fail in one turn of either, the venue
\* left to answer as it will but not to fill or cancel.  Each thread is
\* scheduled again and again, time.sleep returns and so does every call to
\* the venue and to Telegram.
NextLoops ==
    \/ Start
    \/ Poll
    \/ Receive
    \/ PlaceOrder
    \/ SlPositions
    \/ SlOrders
    \/ Return
    \/ CleanupBegin
    \/ CleanupOrdersGet
    \/ CleanupPositionsGet
    \/ CleanupExhausted
    \/ CleanupWrite
    \/ CleanupSleep
    \/ CleanupRaise

SpecLoops ==
    /\ Init
    /\ [][NextLoops]_vars
    /\ WF_vars(PlaceOrder) /\ WF_vars(SlPositions) /\ WF_vars(SlOrders)
    /\ WF_vars(Return)
    /\ WF_vars(CleanupBegin) /\ WF_vars(CleanupOrdersGet \/ CleanupRaise)
    /\ WF_vars(CleanupPositionsGet \/ CleanupRaise)
    /\ WF_vars(CleanupExhausted) /\ WF_vars(CleanupWrite) /\ WF_vars(CleanupSleep)

\* A step of the sweep in which the venue answers the query: no None.
SweepOrdersGet == CleanupOrdersGet /\ ~sweep'.failed

SweepPositionsGet == CleanupPositionsGet /\ ~sweep'.failed

\* The cleanup thread while the bot runs, with a venue that answers every
\* query, fills, cancels and closes, and a main thread that places orders.
\* The thread is scheduled again and again and time.sleep returns; nothing is
\* asked of the main thread or of the venue.
NextReconcile ==
    \/ Start
    \/ Receive
    \/ PlaceOrder
    \/ Return
    \/ CleanupBegin
    \/ SweepOrdersGet
    \/ SweepPositionsGet
    \/ CleanupExhausted
    \/ CleanupWrite
    \/ CleanupSleep
    \/ VenueFill
    \/ VenueCancel
    \/ VenueClose

SpecReconcile ==
    /\ Init
    /\ [][NextReconcile]_vars
    /\ WF_vars(CleanupBegin)
    /\ WF_vars(SweepOrdersGet) /\ WF_vars(SweepPositionsGet)
    /\ WF_vars(CleanupExhausted) /\ WF_vars(CleanupWrite) /\ WF_vars(CleanupSleep)

\* Both threads up to and through TradingBot.stop, the venue left to answer as
\* it will but not to fill or cancel.
NextShutdown ==
    \/ Start
    \/ Receive
    \/ PlaceOrder
    \/ SlPositions
    \/ SlOrders
    \/ Return
    \/ CleanupBegin
    \/ CleanupOrdersGet
    \/ CleanupPositionsGet
    \/ CleanupExhausted
    \/ CleanupWrite
    \/ CleanupSleep
    \/ CleanupRaise
    \/ CleanupEnd
    \/ Interrupt
    \/ Disconnect

SpecShutdown == Init /\ [][NextShutdown]_vars

(***************************************************************************)
(* The pricing functions on their own: TradeParams.get_pending_price and   *)
(* MT5Manager.place_pending_order up to what mt5.order_send answers,       *)
(* applied to arguments drawn from bounded sets                            *)
(***************************************************************************)
\* Prices 1..MaxPrice, in units of 0.01.
MaxPrice == 5

Prices == 1..MaxPrice

Sides == {"buy", "sell"}

\* entry_strategy as config_v2.json may spell it, and two strings that name
\* no strategy.
Strategies == {"auto", "min", "max", " MAX ", "Min", "AUTO", "center", ""}

\* The strings that name no strategy under any spelling.
UnrecognizedStrategies == {"center", ""}

\* central_zone
Offsets == {0 - 1, 0, 1, 2}

\* take_profit as _extract_take_profit can return it.
Hints == {None, Some(9), Some(1)}

\* (min_price, max_price) as _extract_entry_price builds it.
Ranges == {<<low, high>> : low \in Prices, high \in Prices} \cap
          {r \in Prices \X Prices : r[1] <= r[2]}

RangeParams ==
    {TradeParams(side, None, Some(range), 2, hint) :
        side \in Sides, range \in Ranges, hint \in Hints}

SingleParams ==
    {TradeParams(side, Some(price), None, 2, hint) :
        side \in Sides, price \in Prices, hint \in Hints}

\* mt5.symbol_info with one more answer: a tick value of 2.
ProbeSymbolInfos ==
    SymbolInfos \cup
        {Some([trade_tick_value |-> 2, trade_tick_size |-> 1, volume_min |-> 1])}

GetPendingPriceCalls ==
    [fn : {"get_pending_price"}, trade_params : RangeParams \cup SingleParams,
     entry_strategy : Strategies, central_zone : Offsets, out : {None}]

\* place_pending_order is called with the price _process_message resolved, or
\* with none and resolves it itself.
PlaceCalls ==
    [fn : {"place_pending_order"}, trade_params : RangeParams,
     given : BOOLEAN, tick : Ticks, info_volume : ProbeSymbolInfos,
     info_tp : ProbeSymbolInfos, result : SendResults, out : {None}]

InitPricing ==
    /\ InitBot
    /\ probe \in GetPendingPriceCalls \cup PlaceCalls

\* The price get_pending_price resolves for the place call of the probe.
ProbeEntry ==
    Val(get_pending_price(probe.trade_params, trading_config.entry_strategy,
                          trading_config.central_zone))

ApplyGetPendingPrice ==
    /\ probe.fn = "get_pending_price"
    /\ probe.out = None
    /\ probe' = [probe EXCEPT !.out =
                    Some(get_pending_price(probe.trade_params, probe.entry_strategy,
                                           probe.central_zone))]
    /\ UNCHANGED <<trading_config, running, pending_orders, objects, venue>>
    /\ UNCHANGED <<mainVars, cleanVars, ingestVars>>

ApplyPlacePendingOrder ==
    /\ probe.fn = "place_pending_order"
    /\ probe.out = None
    /\ probe' = [probe EXCEPT !.out =
                    Some(PlaceOutcome(probe.trade_params,
                                      IF probe.given THEN Some(ProbeEntry) ELSE None,
                                      trading_config, probe.tick, probe.info_volume,
                                      probe.info_tp, probe.result, 1))]
    /\ UNCHANGED <<trading_config, running, pending_orders, objects, venue>>
    /\ UNCHANGED <<mainVars, cleanVars, ingestVars>>

NextPricing ==
    \/ ApplyGetPendingPrice
    \/ ApplyPlacePendingOrder

SpecPricing == InitPricing /\ [][NextPricing]_vars

(***************************************************************************)
(* The text functions on their own: MessageProcessor.extract_parameters    *)
(* and _extract_entry_price applied to texts put together from the         *)
(* phrasings the patterns know                                             *)
(***************************************************************************)
\* The numbers written in a probed text are 0..MaxLevel.
MaxLevel == 2

Levels == 0..MaxLevel

\* No side, "buy", "sell", or the immediate "buy gold now".
SideParts ==
    {<<>>, <<W("buy")>>, <<W("sell")>>, <<W("buy"), W("gold"), W("now")>>}

\* No entry; "@a"; "@a-b"; "entry: a"; "gold @a"; "entry a @b" (two
\* single-price phrasings); "enter a @b-c" (a single price left of a range).
EntryParts ==
    {<<>>}
    \cup {<<W("@"), N(a)>> : a \in Levels}
    \cup {<<W("@"), N(a), W("-"), N(b)>> : a \in Levels, b \in Levels}
    \cup {<<W("entry"), W(":"), N(a)>> : a \in Levels}
    \cup {<<W("gold"), W("@"), N(a)>> : a \in Levels}
    \cup {<<W("entry"), N(a), W("@"), N(b)>> : a \in Levels, b \in Levels}
    \cup {<<W("enter"), N(a), W("@"), N(b), W("-"), N(a)>> : a \in Levels, b \in Levels}

\* No stop-loss; "sl n"; "stop loss: n"; "sl 0 stop n" (two phrasings, the
\* leftmost carrying 0).
StopLossParts ==
    {<<>>}
    \cup {<<W("sl"), N(n)>> : n \in Levels}
    \cup {<<W("stop"), W("loss"), W(":"), N(n)>> : n \in Levels}
    \cup {<<W("sl"), N(0), W("stop"), N(n)>> : n \in Levels}

\* No take-profit, or "tp n" with the largest number.
TakeProfitParts == {<<>>, <<W("tp"), N(MaxLevel)>>}

ProbeTexts ==
    {side \o entry \o stop_loss \o take_profit :
        side \in SideParts, entry \in EntryParts,
        stop_loss \in StopLossParts, take_profit \in TakeProfitParts}

ExtractCalls ==
    [fn : {"extract_parameters", "extract_entry_price"}, message : ProbeTexts,
     out : {None}]

InitExtract ==
    /\ InitBot
    /\ probe \in ExtractCalls

ApplyExtractParameters ==
    /\ probe.fn = "extract_parameters"
    /\ probe.out = None
    /\ probe' = [probe EXCEPT !.out = Some(extract_parameters(probe.message))]
    /\ UNCHANGED <<trading_config, running, pending_orders, objects, venue>>
    /\ UNCHANGED <<mainVars, cleanVars, ingestVars>>

ApplyExtractEntryPrice ==
    /\ probe.fn = "extract_entry_price"
    /\ probe.out = None
    /\ probe' = [probe EXCEPT !.out = Some(extract_entry_price(probe.message))]
    /\ UNCHANGED <<trading_config, running, pending_orders, objects, venue>>
    /\ UNCHANGED <<mainVars, cleanVars, ingestVars>>

NextExtract ==
    \/ ApplyExtractParameters
    \/ ApplyExtractEntryPrice

SpecExtract == InitExtract /\ [][NextExtract]_vars

(***************************************************************************)
(* Statements about the main thread, checked under SpecMain                *)
(***************************************************************************)
\* The message in hand came out of extraction as a trade intent: no SL
\* command was read from it and extract_parameters returned parameters.
IsTradeIntent(reading) ==
    ~Truthy(reading.new_sl) /\ reading.trade_params # None

\* _process_message is through with an update_pending_order_sl call.
SlCallDone == mainPc = "done" /\ call.fn = "update_pending_order_sl"

\* The positions of call.requests that hold a request of the given action.
RequestsOf(action) ==
    {k \in 1..Len(call.requests) : call.requests[k].action = action}

\* C1: every message that extraction turns into a trade intent, with a range
\* or with a single entry price, has been handed to place_pending_order once
\* with its resolved price by the time _process_message is through with it.
C1_IntentSubmittedOnce ==
    (mainPc = "done" /\ IsTradeIntent(cur)) =>
        /\ call.fn = "place_pending_order"
        /\ call.trade_params = cur.trade_params
        /\ call.pending_price =
               get_pending_price(Val(cur.trade_params),
                                 trading_config.entry_strategy,
                                 trading_config.central_zone)

\* C2: a message that holds an immediate-execution idiom causes no call into
\* the MT5 manager: neither place_pending_order nor update_pending_order_sl.
C2_ImmediateCausesNoCall ==
    cur.immediate => call.fn = "none"

\* C3: a message that holds an SL-update phrasing with a value above zero and
\* the tokens of a trade intent as well causes update_pending_order_sl only,
\* never place_pending_order.
C3_SlUpdateOnly ==
    (cur.positive_update /\ cur.trade_tokens) =>
        call.fn = "update_pending_order_sl"

\* C4: update_pending_order_sl returns False only when the venue reported
\* no open position and no working order.
C4_FailsOnlyWithoutTargets ==
    (SlCallDone /\ call.outcome = "not_updated") =>
        Targets(call.positions) = {} /\ Targets(call.orders) = {}

C6_OneSuccessSuffices ==
    SlCallDone =>
        /\ (\E k \in 1..Len(call.requests) : call.requests[k].result = "done")
               => call.outcome = "updated"
        /\ Len(call.requests) = Cardinality(Targets(call.positions))
                                    + Cardinality(Targets(call.orders))

\* C6 at work: a request failed, a later one was accepted, the call succeeded.
C6_Witness ==
    /\ SlCallDone
    /\ call.outcome = "updated"
    /\ \E j, k \in 1..Len(call.requests) :
          /\ j < k
          /\ call.requests[j].result # "done"
          /\ call.requests[k].result = "done"

\* C10: place_pending_order lists exactly one order, with the ticket the
\* venue returned and not activated, when the venue accepted the order, and
\* leaves the list and its objects alone on every failure.
C10_ListedIffAccepted ==
    [][(mainPc = "place" /\ mainPc' = "done") =>
          IF Len(venue') > Len(venue)
          THEN /\ pending_orders' = Append(pending_orders, Len(venue'))
               /\ Len(objects') = Len(objects) + 1
               /\ objects'[Len(objects')].ticket = Len(venue')
               /\ ~objects'[Len(objects')].is_activated
               /\ \A t \in 1..Len(objects) : objects'[t] = objects[t]
          ELSE /\ pending_orders' = pending_orders
               /\ objects' = objects]_vars

\* C10 at work: the call was accepted and the order is last in the list,
\* after a call that failed left the list as it was.
C10_Witness ==
    /\ mainPc = "done"
    /\ call.outcome = "placed"
    /\ pending_orders # <<>>
    /\ pending_orders[Len(pending_orders)] = Len(venue)
    /\ ~objects[Len(venue)].is_activated

(***************************************************************************)
(* Statements about the list of tracked orders, checked under SpecRegistry *)
(***************************************************************************)
\* The entries of the running sweep for a ticket.
SeenOf(t) == {k \in 1..Len(sweep.seen) : sweep.seen[k].ticket = t}

Listed(t) == t \in Range(pending_orders)

\* C7: after a sweep of cleanup_expired_orders that did not fail, every
\* order that was listed when it began and was found neither as a working
\* order nor as a position is gone from the list; one found as a position is
\* listed and activated; one found only as a working order is listed and
\* not activated.
C7_SweepPostConditions ==
    (cleanPc = "swept" /\ ~sweep.failed) =>
        \A t \in sweep.start :
            /\ SeenOf(t) # {}
            /\ \A k \in SeenOf(t) :
                  /\ (~sweep.seen[k].order /\ ~sweep.seen[k].position)
                         => ~Listed(t)
                  /\ sweep.seen[k].position
                         => Listed(t) /\ objects[t].is_activated
                  /\ (sweep.seen[k].order /\ ~sweep.seen[k].position)
                         => Listed(t) /\ ~objects[t].is_activated

\* C7 at work: one sweep dropped an order found nowhere and kept, activated,
\* an order found as a position.
C7_Witness ==
    /\ cleanPc = "swept"
    /\ ~sweep.failed
    /\ \E j, k \in 1..Len(sweep.seen) :
          /\ ~sweep.seen[j].order /\ ~sweep.seen[j].position
          /\ sweep.seen[k].position
          /\ ~Listed(sweep.seen[j].ticket)
          /\ Listed(sweep.seen[k].ticket)

\* C8: place_pending_order never adds to the list while a sweep of
\* cleanup_expired_orders is between reading the list and storing it back.
C8_NoInsertDuringSweep ==
    [][Len(pending_orders') > Len(pending_orders) =>
          cleanPc \notin {"next", "positions_get", "write"}]_vars

\* C9: an order leaves the list only in a sweep that looked for it and found
\* it neither as a working order nor as a position.
C9_RemovedOnlyWhenNotFound ==
    [][\A t \in Range(pending_orders) :
          t \notin Range(pending_orders') =>
              \E k \in SeenOf(t) :
                  ~sweep.seen[k].order /\ ~sweep.seen[k].position]_vars

(***************************************************************************)
(* Statements about pricing, checked under SpecPricing                     *)
(***************************************************************************)
\* place_pending_order was applied / get_pending_price was applied to a range.
PlaceApplied == probe.fn = "place_pending_order" /\ probe.out # None

RangeResolved ==
    /\ probe.fn = "get_pending_price"
    /\ probe.out # None
    /\ is_range_entry(probe.trade_params)

ProbeLow == Val(probe.trade_params.entry_range)[1]

ProbeHigh == Val(probe.trade_params.entry_range)[2]

ProbeLong == probe.trade_params.trade_type = "buy"

\* C11: place_pending_order sends no request to the venue when the current
\* bid and ask are not to be had, or when the symbol data the take-profit is
\* computed from is not to be had: it fails before mt5.order_send.
C11_NoRequestWithoutData ==
    (PlaceApplied /\ (probe.tick = None \/ probe.info_tp = None)) =>
        /\ Val(probe.out).request = None
        /\ Val(probe.out).pending_order = None
        /\ Val(probe.out).outcome = IF probe.tick = None THEN "no_price" ELSE "no_tp"

\* C11 at work: the prices were there, the symbol data were not, the venue
\* would have accepted, and the call failed on the take-profit.
C11_Witness ==
    /\ PlaceApplied
    /\ probe.tick # None
    /\ probe.info_tp = None
    /\ probe.result = "done"
    /\ Val(probe.out).outcome = "no_tp"

\* C12: the order type sent is, for a buy, a limit when the entry is below
\* the ask and a stop when it is at or above the ask; for a sell, a limit
\* when the entry is above the bid and a stop when it is at or below the bid.
C12_OrderTypeByCurrentPrice ==
    (PlaceApplied /\ Val(probe.out).request # None) =>
        LET request == Val(Val(probe.out).request)
            bid == Val(probe.tick).bid
            ask == Val(probe.tick).ask
        IN /\ request.price = ProbeEntry
           /\ request.type =
                 IF ProbeLong
                 THEN (IF ProbeEntry < ask THEN "buy_limit" ELSE "buy_stop")
                 ELSE (IF ProbeEntry > bid THEN "sell_limit" ELSE "sell_stop")

\* C12 at work: a buy whose entry is the bid, below the ask, went out as a
\* limit order.
C12_Witness ==
    /\ PlaceApplied
    /\ Val(probe.out).request # None
    /\ ProbeLong
    /\ ProbeEntry = Val(probe.tick).bid
    /\ ProbeEntry < Val(probe.tick).ask
    /\ Val(Val(probe.out).request).type = "buy_limit"

\* C13: with no offset, get_pending_price of a range gives the low edge for a
\* buy and the high edge for a sell under 'auto' and 'min', the high edge for
\* a buy and the low edge for a sell under 'max', and what 'auto' gives under
\* a string that names no strategy.
C13_BaseByStrategy ==
    (RangeResolved /\ probe.central_zone = 0) =>
        /\ probe.entry_strategy \in {"auto", "min"} \cup UnrecognizedStrategies
              => Val(probe.out) = Some(IF ProbeLong THEN ProbeLow ELSE ProbeHigh)
        /\ probe.entry_strategy = "max"
              => Val(probe.out) = Some(IF ProbeLong THEN ProbeHigh ELSE ProbeLow)

\* C13 at work: a sell over a proper range under 'max' resolved to the low
\* edge.
C13_Witness ==
    /\ RangeResolved
    /\ probe.central_zone = 0
    /\ probe.entry_strategy = "max"
    /\ ~ProbeLong
    /\ ProbeLow < ProbeHigh
    /\ Val(probe.out) = Some(ProbeLow)

\* C14: get_pending_price of a range with offset c is what it gives with no
\* offset plus c for a buy and minus c for a sell, under every strategy; with
\* no offset it gives the base price.
C14_OffsetBySide ==
    RangeResolved =>
        LET zero == Val(get_pending_price(probe.trade_params,
                                          probe.entry_strategy, 0))
        IN /\ zero = BasePrice(probe.trade_params.trade_type, ProbeLow, ProbeHigh,
                               probe.entry_strategy)
           /\ Val(probe.out) = Some(IF ProbeLong THEN zero + probe.central_zone
                                    ELSE zero - probe.central_zone)

\* C14 at work: a sell with offset 2 resolved two below its base price.
C14_Witness ==
    /\ RangeResolved
    /\ ~ProbeLong
    /\ probe.central_zone = 2
    /\ Val(probe.out) =
          Some(BasePrice("sell", ProbeLow, ProbeHigh, probe.entry_strategy) - 2)

\* C15: the take-profit of the request and of the PendingOrder is the computed
\* one and owes nothing to the take-profit read from the message: the call
\* comes out the same whatever that one is.
C15_HintIgnored ==
    PlaceApplied =>
        /\ \A hint \in Hints :
              PlaceOutcome([probe.trade_params EXCEPT !.take_profit = hint],
                           IF probe.given THEN Some(ProbeEntry) ELSE None,
                           trading_config, probe.tick, probe.info_volume,
                           probe.info_tp, probe.result, 1) = Val(probe.out)
        /\ Val(probe.out).request # None =>
              Some(Val(Val(probe.out).request).tp) =
                  calculate_tp_for_profit(ProbeEntry, probe.trade_params.trade_type,
                                          get_minimum_volume(probe.info_volume),
                                          probe.info_tp, trading_config.target_profit)

\* C15 at work: the message gave a take-profit, the order was accepted, and
\* request and PendingOrder carry another one.
C15_Witness ==
    /\ PlaceApplied
    /\ Truthy(probe.trade_params.take_profit)
    /\ Val(probe.out).outcome = "placed"
    /\ Val(Val(probe.out).request).tp # Val(probe.trade_params.take_profit)
    /\ Val(Val(probe.out).pending_order).take_profit
          # Val(probe.trade_params.take_profit)

\* C16: with the symbol data to be had and target profit, tick size, tick
\* value and volume all above zero, the take-profit is the entry plus
\* d = target_profit * tick_size / (tick_value * volume) for a buy and the
\* entry minus d for a sell, strictly above and strictly below the entry, and
\* the request goes out with it.
C16_TakeProfitByDistance ==
    (/\ PlaceApplied
     /\ probe.tick # None
     /\ probe.info_tp # None
     /\ Val(probe.info_tp).trade_tick_value > 0
     /\ Val(probe.info_tp).trade_tick_size > 0
     /\ get_minimum_volume(probe.info_volume) > 0
     /\ trading_config.target_profit > 0) =>
        LET d == (trading_config.target_profit * Val(probe.info_tp).trade_tick_size)
                    \div (Val(probe.info_tp).trade_tick_value
                             * get_minimum_volume(probe.info_volume))
        IN /\ Val(probe.out).request # None
           /\ Val(Val(probe.out).request).tp =
                 IF ProbeLong THEN ProbeEntry + d ELSE ProbeEntry - d
           /\ ProbeLong => Val(Val(probe.out).request).tp > ProbeEntry
           /\ ~ProbeLong => Val(Val(probe.out).request).tp < ProbeEntry

(***************************************************************************)
(* Statements about the polling of the channel, checked under SpecIngest   *)
(***************************************************************************)
\* A step of get_new_messages that found new messages.
Polled == new_messages = <<>> /\ new_messages' # <<>>

\* A step that hands a message to _process_message.
Handed == processed' # processed

\* The ids of the messages get_messages returns now.
FetchedIds == {id \in 1..Len(channel) : id > Len(channel) - FetchLimit}

\* The ids above last_message_id, among the given ones, of messages with text.
Unseen(ids) == {id \in ids : id > last_message_id /\ channel[id] # <<>>}

\* C17: at most one order request is sent to the venue for a message, and a
\* request that was rejected or failed is not sent again: the handling of a
\* message sends one request at most and only while place_pending_order
\* runs, ends when that call ends, and a message is handled once.
C17_OneRequestPerMessage ==
    /\ [](call.fn = "place_pending_order" => Len(call.requests) <= 1)
    /\ [][/\ (call'.requests # call.requests /\ call'.requests # <<>>)
                => (mainPc = "place" /\ mainPc' = "done")
          /\ mainPc = "done" => mainPc' \in {"done", "idle"}
          /\ (mainPc # "place" /\ mainPc' = "place")
                => /\ new_messages # <<>>
                   /\ Head(new_messages) \notin Range(processed)
                   /\ processed' = Append(processed, Head(new_messages))]_vars

\* C17 at work: the request for a message was rejected or got no answer, the
\* handling is over, and the next message is waiting.
C17_Witness ==
    /\ mainPc = "done"
    /\ call.outcome \in {"rejected", "no_result"}
    /\ Len(call.requests) = 1
    /\ processed # <<>>
    /\ new_messages # <<>>

\* C18: last_message_id never decreases; get_new_messages returns a message
\* only if its id is above last_message_id then; no id is handed to
\* _process_message twice.
C18_CursorMonotone ==
    [][/\ last_message_id' >= last_message_id
       /\ Polled => \A k \in 1..Len(new_messages') :
                        new_messages'[k] > last_message_id
       /\ Handed => /\ new_messages # <<>>
                    /\ processed' = Append(processed, Head(new_messages))
                    /\ Head(new_messages) \notin Range(processed)]_vars

\* C18 at work: messages of two polls were handed over, and last_message_id
\* is the id of the last one.
C18_Witness ==
    /\ Len(processed) >= 2
    /\ new_messages = <<>>
    /\ last_message_id = processed[Len(processed)]
    /\ call.fn = "get_new_messages"
    /\ call.outcome = "fetched"

\* C19 as stated: oldest unseen first whatever the number of messages that
\* arrived between two polls: a poll returns every message with text above
\* last_message_id, in ascending order of id, and they are handed over in
\* that order.
C19_OldestUnseenFirst ==
    [][/\ Polled => new_messages' = Ascending(Unseen(1..Len(channel)))
       /\ Handed => /\ processed' = Append(processed, Head(new_messages))
                    /\ new_messages' = Tail(new_messages)]_vars

\* C19: oldest unseen first among the messages a poll fetches, the newest
\* five: a poll returns every fetched message with text above last_message_id,
\* in ascending order of id, sets last_message_id to the last of them, and
\* they are handed over in that order.
C19_OldestFetchedFirst ==
    [][/\ Polled => /\ new_messages' = Ascending(Unseen(FetchedIds))
                    /\ last_message_id' = new_messages'[Len(new_messages')]
       /\ Handed => /\ processed' = Append(processed, Head(new_messages))
                    /\ new_messages' = Tail(new_messages)]_vars

\* C19 at work: a poll returned several messages, the older of them has been
\* handed over and the newer ones wait in order.
C19_Witness ==
    /\ processed # <<>>
    /\ Len(new_messages) >= 2
    /\ processed[Len(processed)] < new_messages[1]
    /\ new_messages[1] < new_messages[2]
    /\ last_message_id = new_messages[Len(new_messages)]

(***************************************************************************)
(* Statements about both loops, checked under SpecLoops                    *)
(***************************************************************************)
\* _process_message is through with a message it failed on.
MainFailed ==
    /\ mainPc = "done"
    /\ call.outcome \in {"raised", "no_price", "no_tp", "no_result", "rejected",
                         "not_updated"}

FetchFailed == call.fn = "get_new_messages" /\ call.outcome = "failed"

SweepFailed == cleanPc = "swept" /\ sweep.failed

\* C20: no failure in one turn ends either loop: the bot stays running, a
\* failed fetch leaves the main loop ready to poll, after a message that
\* failed the main loop is back to take the next, and after a sweep that
\* failed the cleanup loop starts its next sweep.
C20_LoopsSurvive ==
    /\ [](mainPc # "stopped" /\ cleanPc # "dead")
    /\ [][running => running']_vars
    /\ [](FetchFailed => running /\ mainPc = "idle")
    /\ (MainFailed ~> (mainPc = "idle" /\ running))
    /\ (SweepFailed ~> (cleanPc = "next" /\ running))

\* C20 at work: a message raised in _process_message while a sweep failed.
C20_Witness ==
    /\ MainFailed
    /\ call.outcome = "raised"
    /\ SweepFailed

(***************************************************************************)
(* Statements about text extraction, checked under SpecExtract             *)
(***************************************************************************)
\* C21: every TradeParams extract_parameters returns has exactly one of
\* entry_price and entry_range set, a range with low <= high, and a stop-loss
\* above 0; a text that names no side, or no entry, or no stop-loss above 0
\* in any phrasing, yields None.
C21_IntentWellFormed ==
    (probe.fn = "extract_parameters" /\ probe.out # None) =>
        LET message == probe.message
            intent == Val(probe.out)
            side == \E i \in 1..Len(message) :
                        message[i].w \in BUY_WORDS \cup SELL_WORDS
            entry == \/ \E k \in 1..Len(RANGE_PATTERNS) :
                            MatchPositions(RANGE_PATTERNS[k], message) # {}
                     \/ \E k \in 1..Len(ENTRY_PATTERNS) :
                            MatchPositions(ENTRY_PATTERNS[k], message) # {}
            positive_sl == \E k \in 1..Len(SL_PATTERNS) : \E i \in 1..Len(message) :
                              \E variant \in SL_PATTERNS[k] :
                                  /\ MatchesAt(variant, message, i)
                                  /\ message[i + Len(variant) - 1].v > 0
        IN /\ intent # None =>
                /\ (Val(intent).entry_price = None) # (Val(intent).entry_range = None)
                /\ Val(intent).entry_range # None =>
                       Val(Val(intent).entry_range)[1] <= Val(Val(intent).entry_range)[2]
                /\ Val(intent).stop_loss > 0
           /\ ~(side /\ entry /\ positive_sl) => intent = None

\* A range written high edge first came out as an intent.
C21_Witness ==
    /\ probe.fn = "extract_parameters"
    /\ probe.out # None
    /\ Val(probe.out) # None
    /\ Val(Val(probe.out)).entry_range # None
    /\ \E i \in 1..Len(probe.message) :
          /\ MatchesAt(<<{"@"}, NUM, {"-"}, NUM>>, probe.message, i)
          /\ probe.message[i + 1].v > probe.message[i + 3].v

\* C23: a text a range pattern matches gives a range, whatever single price
\* the text could also be read as; a text no range pattern matches gives the
\* single price of the first pattern of ENTRY_PATTERNS, in list order, that
\* matches, and nothing when none does.
C23_RangeBeforeSingle ==
    (probe.fn = "extract_entry_price" /\ probe.out # None) =>
        LET message == probe.message
            entry_data == Val(probe.out)
            ranged == \E k \in 1..Len(RANGE_PATTERNS) :
                         MatchPositions(RANGE_PATTERNS[k], message) # {}
            singles == {k \in 1..Len(ENTRY_PATTERNS) :
                          MatchPositions(ENTRY_PATTERNS[k], message) # {}}
        IN /\ ranged =>
                /\ entry_data # None
                /\ Val(entry_data).type = "range"
                /\ \E i \in 1..Len(message) :
                      /\ MatchesAt(<<{"@"}, NUM, {"-"}, NUM>>, message, i)
                      /\ {Val(entry_data).min_price, Val(entry_data).max_price}
                            = {message[i + 1].v, message[i + 3].v}
           /\ (~ranged /\ singles # {}) =>
                /\ entry_data # None
                /\ Val(entry_data).type = "single"
                /\ Val(entry_data).price =
                      Val(Search(ENTRY_PATTERNS[MinOf(singles)], message))[1]
           /\ (~ranged /\ singles = {}) => entry_data = None
           /\ (entry_data # None /\ Val(entry_data).type = "single") => ~ranged

\* A text with a single price left of a range was read as the range.
C23_Witness ==
    /\ probe.fn = "extract_entry_price"
    /\ probe.out # None
    /\ MatchPositions(ENTRY_PATTERNS[2], probe.message) # {}
    /\ MatchPositions(RANGE_PATTERNS[1], probe.message) # {}
    /\ Val(Val(probe.out)).type = "range"

(***************************************************************************)
(* Statements about stop-loss updates, checked under SpecMain              *)
(***************************************************************************)
\* C22: update_pending_order_sl is only ever called with a new stop-loss
\* above 0; a message whose SL-update phrasing reads as 0 leads to no call of
\* it and to no request that modifies a stop-loss.
C22_SlUpdateAboveZero ==
    /\ call.fn = "update_pending_order_sl" => call.new_sl > 0
    /\ cur.new_sl = Some(0) =>
          /\ call.fn # "update_pending_order_sl"
          /\ mainPc \notin {"sl_positions", "sl_orders"}
          /\ \A k \in 1..Len(call.requests) :
                call.requests[k].action \notin {"sltp", "modify"}

\* A message whose SL update reads as 0 was handled to its end, and so was
\* one that carried a value above 0.
C22_Witness ==
    \/ /\ cur.new_sl = Some(0)
       /\ mainPc = "done"
       /\ cur.trade_params # None
       /\ call.outcome = "placed"
    \/ /\ cur.new_sl = Some(0)
       /\ mainPc = "done"
       /\ cur.trade_params = None

\* C25: every request update_pending_order_sl sends carries sl = new_sl and
\* the tp the venue holds for the ticket, and for a pending order the
\* price_open the venue holds for it; every ticket of the answer to
\* positions_get, and every ticket of the answer to orders_get, is sent
\* exactly one request in the call, and no other ticket is sent any.
C25_OnlyStopLossChanges ==
    call.fn = "update_pending_order_sl" =>
        LET sent(action, t) ==
                {k \in 1..Len(call.requests) :
                    call.requests[k].action = action /\ call.requests[k].ticket = t}
        IN /\ \A k \in 1..Len(call.requests) :
                 LET request == call.requests[k] IN
                 /\ request.action \in {"sltp", "modify"}
                 /\ request.sl = call.new_sl
                 /\ request.tp = venue[request.ticket].tp
                 /\ request.action = "modify" =>
                        request.price = venue[request.ticket].price_open
                 /\ request.action = "sltp" =>
                        request.ticket \in Targets(call.positions)
                 /\ request.action = "modify" =>
                        request.ticket \in Targets(call.orders)
           /\ Len(call.queries) >= 1 =>
                 \A t \in Targets(call.positions) : Cardinality(sent("sltp", t)) = 1
           /\ Len(call.queries) = 2 =>
                 \A t \in Targets(call.orders) : Cardinality(sent("modify", t)) = 1

\* One call sent a request for a position and a request for a pending order
\* that differ in tp.
C25_Witness ==
    /\ call.fn = "update_pending_order_sl"
    /\ mainPc = "done"
    /\ \E j \in 1..Len(call.requests) : \E k \in 1..Len(call.requests) :
          /\ call.requests[j].action = "sltp"
          /\ call.requests[k].action = "modify"
          /\ call.requests[j].tp # call.requests[k].tp

(***************************************************************************)
(* Statements about the list and its objects, checked under SpecRegistry   *)
(* and SpecLoops                                                           *)
(***************************************************************************)
\* C27: is_activated of a PendingOrder is False when the object is created
\* and listed, turns True only in the step of a sweep in which positions_get
\* found a position for its ticket, and once True is not False again while
\* the order is listed.
C27_ActivatedMonotone ==
    [][\A t \in DOMAIN objects' :
          /\ t \notin DOMAIN objects =>
                ~objects'[t].is_activated /\ t \in Range(pending_orders')
          /\ (t \in DOMAIN objects /\ ~objects[t].is_activated
                /\ objects'[t].is_activated) =>
                /\ cleanPc = "positions_get"
                /\ pending_orders[cursor] = t
                /\ venue[t].state = "position"
                /\ Len(sweep'.seen) = Len(sweep.seen) + 1
                /\ sweep'.seen[Len(sweep'.seen)].ticket = t
                /\ sweep'.seen[Len(sweep'.seen)].position
          /\ (t \in DOMAIN objects /\ objects[t].is_activated) =>
                objects'[t].is_activated]_vars

\* An order that was listed as not activated is listed as activated, after
\* the sweep that marked it went back to sleep and another one began.
C27_Witness ==
    /\ cleanPc = "next"
    /\ \E t \in Range(pending_orders) :
          /\ objects[t].is_activated
          /\ t \in sweep.start
          /\ SeenOf(t) = {}

\* C28: no step of update_pending_order_sl changes the list or any field of
\* a PendingOrder, whatever the venue answers; the list and the objects
\* change only in a step of place_pending_order or of cleanup_expired_orders.
C28_SlUpdateLeavesRegistry ==
    [][/\ (mainPc \in {"sl_positions", "sl_orders"} /\ mainPc' # mainPc) =>
             (pending_orders' = pending_orders /\ objects' = objects)
       /\ (pending_orders' # pending_orders \/ objects' # objects) =>
             \/ mainPc = "place" /\ mainPc' = "done"
             \/ cleanPc \in {"positions_get", "write"} /\ cleanPc' # cleanPc]_vars

\* The venue accepted a new stop-loss for an order the list still holds with
\* the stop-loss it was placed with.
C28_Witness ==
    /\ call.fn = "update_pending_order_sl"
    /\ mainPc = "done"
    /\ \E k \in 1..Len(call.requests) :
          /\ call.requests[k].action = "modify"
          /\ call.requests[k].result = "done"
          /\ call.requests[k].ticket \in Range(pending_orders)
          /\ objects[call.requests[k].ticket].stop_loss # call.new_sl

(***************************************************************************)
(* Statements about the start of the polling, checked under SpecIngest     *)
(***************************************************************************)
\* C29: no message the channel already held when TelegramManager.connect
\* returned True is ever handed to _process_message: only the messages that
\* arrive later are.
C29_NoBacklogProcessed ==
    \A k \in 1..Len(processed) : processed[k] > present

(***************************************************************************)
(* Statements about TradingBot.stop, checked under SpecShutdown            *)
(***************************************************************************)
\* C24: once stop() has gone past the join to disconnect, the cleanup thread
\* asks the venue nothing more and writes neither the list nor its objects
\* (it had ended its sweep or given it up before); and no sweep begins once
\* running is False.
C24_SweepOverBeforeDisconnect ==
    [][/\ mainPc = "stopped" =>
             /\ ~(cleanPc = "next" /\ cleanPc' = "positions_get")
             /\ ~(cleanPc = "positions_get" /\ cleanPc' # cleanPc)
             /\ ~(cleanPc = "write" /\ cleanPc' # cleanPc)
             /\ pending_orders' = pending_orders
             /\ objects' = objects
       /\ ~running => ~(cleanPc = "sleep" /\ cleanPc' = "next")]_vars

(***************************************************************************)
(* Statements about what the sweeps come to, checked under SpecReconcile   *)
(***************************************************************************)
\* C26: with the cleanup thread scheduled again and again and every query
\* answered, an order that is listed and from then on neither a working
\* order nor a position of the venue is eventually not listed; and an order
\* that is listed and from then on an open position eventually has
\* is_activated = True.
C26_EventuallyReconciled ==
    \A t \in 1..MaxTickets :
        /\ (Listed(t) /\ venue[t].state = "gone") ~> ~Listed(t)
        /\ []((Listed(t) /\ [](t \in DOMAIN venue /\ venue[t].state = "position"))
                 => <>(t \in DOMAIN objects /\ objects[t].is_activated))

====
